---------------------------- MODULE Spec2Model ----------------------------
(***************************************************************************)
(* SecureHost Control Suite: the two kernel drivers.                       *)
(*                                                                         *)
(*   src/src/drivers/SecureHostDevice/driver.c  device access filter       *)
(*   src/src/drivers/SecureHostWFP/driver.c     WFP network callout driver *)
(*                                                                         *)
(* The device driver is modelled with one record per host thread that is   *)
(* inside SecureHostIoDeviceControl / SecureHostCheckDeviceAccess, stepping*)
(* at the spin lock operations and at each iteration of the scan loop.     *)
(* Neither driver contains code that inserts a rule: the policy writer is  *)
(* an external collaborator, modelled from section 4.1 of the              *)
(* specification (InsertAcquire / InsertLink / InsertRelease).             *)
(***************************************************************************)
EXTENDS Integers, Sequences, FiniteSets, TLC

\* ------------------------------------------------------------------ bounds

\* Most rules the policy writer inserts into the device policy list.
MaxRules == 2

\* Host threads that may be inside the device driver at the same time.
NumRequests == 1

\* ------------------------------------------------- device driver constants

\* SECUREHOST_DEVICE_TYPE (driver.c:32-38)
DeviceTypeCamera == 1
DeviceTypeUnknown == 0

\* The device types rules and direct queries are drawn from.
DeviceTypes == {DeviceTypeUnknown, DeviceTypeCamera}

\* Process ids: 0 in a rule is the "any process" sentinel.  Requesters are
\* real processes, whose id is never 0.
RuleProcessIds == {0, 1}
RequesterProcessIds == {1, 2}

STATUS_SUCCESS == "STATUS_SUCCESS"
STATUS_ACCESS_DENIED == "STATUS_ACCESS_DENIED"
STATUS_INVALID_DEVICE_REQUEST == "STATUS_INVALID_DEVICE_REQUEST"
STATUS_NONE == "none"

\* NT_SUCCESS(status): of the values the drivers produce only STATUS_SUCCESS
\* is non-negative.
NT_SUCCESS(status) == status = STATUS_SUCCESS

\* CTL_CODE(DeviceType, Function, Method, Access)
CTL_CODE(DeviceType, Function, Method, Access) ==
    DeviceType * 65536 + Access * 16384 + Function * 4 + Method

\* IOCTL_SECUREHOST_CHECK_ACCESS =
\*   CTL_CODE(FILE_DEVICE_UNKNOWN, 0x800, METHOD_BUFFERED, FILE_ANY_ACCESS)
IOCTL_SECUREHOST_CHECK_ACCESS == CTL_CODE(34, 2048, 0, 0)

\* The control codes the host delivers: the one the driver knows, a
\* neighbouring function code, and zero.
IoControlCodes ==
    {IOCTL_SECUREHOST_CHECK_ACCESS, CTL_CODE(34, 2049, 0, 0), 0}

\* SECUREHOST_DEVICE_POLICY (ProcessName is read by no code)
DevicePolicies ==
    [DeviceType : DeviceTypes, ProcessId : RuleProcessIds, Allowed : BOOLEAN]

\* ---------------------------------------------------- WFP driver constants

\* Most direct calls of the hook registry's routines in SpecRegistry.
MaxCalls == 3

FWP_ACTION_PERMIT == "FWP_ACTION_PERMIT"
FWP_ACTION_BLOCK == "FWP_ACTION_BLOCK"
FWP_ACTION_NONE == "FWP_ACTION_NONE"

\* fwpstypes.h values of the two bits SecureHostClassifyFn tests and clears.
FWPS_FILTER_FLAG_CLEAR_ACTION_RIGHT == 1
FWPS_RIGHT_ACTION_WRITE == 1

\* Filter flags and rights masks: the bit the code looks at and one other.
FilterFlags == 0..3
RightsMasks == 0..3

\* The statuses a failing step of SecureHostRegisterCallouts returns, one per
\* host call.
E_ENGINE_OPEN == "E_ENGINE_OPEN"
E_TRANSACTION_BEGIN == "E_TRANSACTION_BEGIN"
E_CALLOUT_REGISTER_V4 == "E_CALLOUT_REGISTER_V4"
E_CALLOUT_REGISTER_V6 == "E_CALLOUT_REGISTER_V6"
E_SUBLAYER_ADD == "E_SUBLAYER_ADD"
E_CALLOUT_ADD_V4 == "E_CALLOUT_ADD_V4"
E_CALLOUT_ADD_V6 == "E_CALLOUT_ADD_V6"
E_TRANSACTION_COMMIT == "E_TRANSACTION_COMMIT"
E_WDF_DRIVER_CREATE == "E_WDF_DRIVER_CREATE"

\* SECUREHOST_POLICY_RULE without its RuleId: what the policy writer supplies.
\* Protocol and ports are those of the one connection the model classifies.
NetworkRules ==
    [ProcessId : {0, 100}, Protocol : {6}, LocalPort : {443},
     RemotePort : {51000}, Action : {FWP_ACTION_BLOCK, FWP_ACTION_PERMIT},
     Enabled : BOOLEAN]

\* a & b and a & ~b on non-negative integers.
RECURSIVE BitAnd(_, _)
BitAnd(a, b) ==
    IF a = 0 \/ b = 0 THEN 0
    ELSE (a % 2) * (b % 2) + 2 * BitAnd(a \div 2, b \div 2)

BitAndNot(a, b) == a - BitAnd(a, b)

Requests == 1..NumRequests

\* The policy writer's identity as a lock holder; 0 is the free lock.
Writer == NumRequests + 1

VARIABLES
    PolicyList,     \* DRIVER_CONTEXT.PolicyList, head first
    PolicyLock,     \* DRIVER_CONTEXT.PolicyLock: 0 free, else the holder
    deviceAdded,    \* a device object and its queue exist
    deviceType,     \* DEVICE_CONTEXT.DeviceType of that device
    th,             \* per host thread: position and locals
    wpc,            \* the policy writer's position
    partial,        \* the tail node is linked but the insert is not finished
    cleanup,        \* SecureHostDriverCleanup: "no", "running", "done"
    freed           \* the rules cleanup has freed, in order

devVars ==
    <<PolicyList, PolicyLock, deviceAdded, deviceType, th, wpc, partial,
      cleanup, freed>>

VARIABLES
    ctl,            \* position of the load/unload thread (or of the caller)
    caller,         \* who called the registry routine that is running
    calls,          \* direct calls made so far (SpecRegistry)
    EngineHandle,   \* SECUREHOST_DRIVER_CONTEXT.EngineHandle, 0 is NULL
    CalloutIdV4,    \* SECUREHOST_DRIVER_CONTEXT.CalloutIdV4
    CalloutIdV6,    \* SECUREHOST_DRIVER_CONTEXT.CalloutIdV6
    RulesList,      \* SECUREHOST_DRIVER_CONTEXT.RulesList, head first
    NextRuleId,     \* SECUREHOST_DRIVER_CONTEXT.NextRuleId
    regStatus,      \* SecureHostRegisterCallouts' local status
    loadStatus,     \* what DriverEntry returned to the loader
    hostSeq,        \* host: handles and callout ids handed out so far
    hostEngines,    \* host: open engine handles
    hostTxn,        \* host: a transaction is open on the engine session
    hostCallouts,   \* host: callout ids registered with FwpsCalloutRegister3
    enginePending,  \* host: objects added inside the open transaction
    engineObjects,  \* host: objects of committed transactions
    hostLog,        \* the host calls the driver made, in order
    rulesFreed,     \* rules freed by unload, in order
    lastClassify    \* the last classify call: what went in and came out

wfpVars ==
    <<ctl, caller, calls, EngineHandle, CalloutIdV4, CalloutIdV6, RulesList,
      NextRuleId, regStatus, loadStatus, hostSeq, hostEngines, hostTxn,
      hostCallouts, enginePending, engineObjects, hostLog, rulesFreed,
      lastClassify>>

ctxVars == <<EngineHandle, CalloutIdV4, CalloutIdV6, RulesList, NextRuleId>>
hostVars ==
    <<hostSeq, hostEngines, hostTxn, hostCallouts, enginePending,
      engineObjects, hostLog>>

\* A thread that is not inside the driver.
IdleThread ==
    [pc |-> "idle", caller |-> "none", IoControlCode |-> 0, processId |-> 0,
     DeviceType |-> DeviceTypeUnknown, ProcessId |-> 0, entry |-> 0,
     status |-> STATUS_NONE, reqStatus |-> STATUS_NONE, completions |-> 0,
     truth |-> FALSE, visited |-> 0]

\* State after the device driver's DriverEntry returned STATUS_SUCCESS.
InitDevice ==
    /\ PolicyList = <<>>
    /\ PolicyLock = 0
    /\ deviceAdded = FALSE
    /\ deviceType = DeviceTypeUnknown
    /\ th = [r \in Requests |-> IdleThread]
    /\ wpc = "idle"
    /\ partial = FALSE
    /\ cleanup = "no"
    /\ freed = <<>>

\* ------------------------------------------------------- specification side

\* Section 4.1 matchExists, as the specification states it: some rule of the
\* store has the class, the subject (or the sentinel 0) and verdict Allow.
MatchExists(rules, resourceClass, subjectId) ==
    \E i \in 1..Len(rules) :
        /\ rules[i].DeviceType = resourceClass
        /\ (rules[i].ProcessId = 0 \/ rules[i].ProcessId = subjectId)
        /\ rules[i].Allowed

\* ---------------------------------------------------------- device driver

\* Faulty variant: the device is identified as a camera.
SecureHostIdentifyDeviceCamera == DeviceTypeCamera

\* SecureHostIdentifyDevice: return DeviceTypeUnknown;
SecureHostIdentifyDevice == DeviceTypeUnknown

\* SecureHostDeviceAdd: WdfDeviceCreate and WdfIoQueueCreate each succeed or
\* fail; the device exists for requests only when both succeeded.
SecureHostDeviceAdd ==
    /\ ~deviceAdded
    /\ cleanup = "no"
    /\ \E created \in BOOLEAN, queued \in BOOLEAN :
          /\ deviceAdded' = (created /\ queued)
          /\ deviceType' = IF created THEN SecureHostIdentifyDevice
                                      ELSE deviceType
    /\ UNCHANGED <<PolicyList, PolicyLock, th, wpc, partial, cleanup, freed>>
    /\ UNCHANGED wfpVars

\* Faulty variant: the scan starts from success instead of access-denied.
CheckInitialStatusSuccess == STATUS_SUCCESS

\* NTSTATUS status = STATUS_ACCESS_DENIED;
CheckInitialStatus == STATUS_ACCESS_DENIED

\* Faulty variant: the default case leaves the initial STATUS_SUCCESS in place.
DefaultCaseStatusSuccess == STATUS_SUCCESS

\* default: status = STATUS_INVALID_DEVICE_REQUEST;
DefaultCaseStatus == STATUS_INVALID_DEVICE_REQUEST

\* SecureHostIoDeviceControl up to the end of the switch statement's
\* selection: either the call of SecureHostCheckDeviceAccess or the default
\* case.
SecureHostIoDeviceControl(r, code, pid) ==
    /\ th[r].pc = "idle"
    /\ deviceAdded
    /\ cleanup = "no"
    /\ th' = [th EXCEPT ![r] =
          IF code = IOCTL_SECUREHOST_CHECK_ACCESS
          THEN [IdleThread EXCEPT
                  !.pc = "check_acquire", !.caller = "ioctl",
                  !.IoControlCode = code, !.processId = pid,
                  !.reqStatus = STATUS_SUCCESS,
                  !.DeviceType = deviceType, !.ProcessId = pid,
                  !.status = CheckInitialStatus]
          ELSE [IdleThread EXCEPT
                  !.pc = "io_complete", !.caller = "ioctl",
                  !.IoControlCode = code, !.processId = pid,
                  !.reqStatus = DefaultCaseStatus]]
    /\ UNCHANGED <<PolicyList, PolicyLock, deviceAdded, deviceType, wpc,
                   partial, cleanup, freed>>
    /\ UNCHANGED wfpVars

\* A direct call of SecureHostCheckDeviceAccess (it is declared with external
\* linkage) with any device type and process id.
CallCheckDeviceAccess(r, type, pid) ==
    /\ th[r].pc = "idle"
    /\ cleanup # "running"
    /\ th' = [th EXCEPT ![r] =
          [IdleThread EXCEPT
              !.pc = "check_acquire", !.caller = "direct",
              !.processId = pid,
              !.DeviceType = type, !.ProcessId = pid,
              !.status = CheckInitialStatus]]
    /\ UNCHANGED <<PolicyList, PolicyLock, deviceAdded, deviceType, wpc,
                   partial, cleanup, freed>>
    /\ UNCHANGED wfpVars

\* Faulty variant: the scan starts without taking the spin lock.
CheckAcquireNoLock(r) ==
    /\ th[r].pc = "check_acquire"
    /\ th' = [th EXCEPT ![r].pc = "check_scan", ![r].entry = 1,
                        ![r].truth = MatchExists(PolicyList, th[r].DeviceType,
                                                 th[r].processId)]
    /\ UNCHANGED <<PolicyList, PolicyLock, deviceAdded, deviceType, wpc,
                   partial, cleanup, freed>>
    /\ UNCHANGED wfpVars

\* KeAcquireSpinLock(&Context->PolicyLock, &oldIrql) and the loop's
\* initialiser entry = Context->PolicyList.Flink.  truth records what the
\* specification's matchExists says of the list at this moment.
CheckAcquire(r) ==
    /\ th[r].pc = "check_acquire"
    /\ PolicyLock = 0
    /\ PolicyLock' = r
    /\ th' = [th EXCEPT ![r].pc = "check_scan", ![r].entry = 1,
                        ![r].truth = MatchExists(PolicyList, th[r].DeviceType,
                                                 th[r].processId)]
    /\ UNCHANGED <<PolicyList, deviceAdded, deviceType, wpc, partial,
                   cleanup, freed>>
    /\ UNCHANGED wfpVars

\* Faulty variant: the "any process" sentinel is not honoured.
PolicyAppliesExact(policy, DeviceType, ProcessId) ==
    /\ policy.DeviceType = DeviceType
    /\ policy.ProcessId = ProcessId

\* policy->DeviceType == DeviceType &&
\*   (policy->ProcessId == 0 || policy->ProcessId == ProcessId)
PolicyApplies(policy, DeviceType, ProcessId) ==
    /\ policy.DeviceType = DeviceType
    /\ (policy.ProcessId = 0 \/ policy.ProcessId = ProcessId)

\* Faulty variant: first match wins, the first rule that applies ends the scan
\* with its own verdict.
ScanStepFirstMatch(policy, DeviceType, ProcessId, status) ==
    IF PolicyApplies(policy, DeviceType, ProcessId)
    THEN [break |-> TRUE,
          status |-> IF policy.Allowed THEN STATUS_SUCCESS ELSE status]
    ELSE [break |-> FALSE, status |-> status]

\* The loop body on one rule: status = STATUS_SUCCESS and break when the rule
\* applies and is Allowed, otherwise nothing.
ScanStep(policy, DeviceType, ProcessId, status) ==
    IF PolicyApplies(policy, DeviceType, ProcessId) /\ policy.Allowed
    THEN [break |-> TRUE, status |-> STATUS_SUCCESS]
    ELSE [break |-> FALSE, status |-> status]

\* Faulty variant: a grant is used up, the rule that granted is unlinked.
CheckScanConsumesGrant(r) ==
    /\ th[r].pc = "check_scan"
    /\ IF th[r].entry > Len(PolicyList)
       THEN th' = [th EXCEPT ![r].pc = "check_release"] /\ UNCHANGED PolicyList
       ELSE LET step == ScanStep(PolicyList[th[r].entry], th[r].DeviceType,
                                 th[r].ProcessId, th[r].status) IN
            IF step.break
            THEN /\ th' = [th EXCEPT ![r].status = step.status,
                                     ![r].visited = @ + 1,
                                     ![r].pc = "check_release"]
                 /\ PolicyList' = [i \in 1..(Len(PolicyList) - 1) |->
                                      IF i < th[r].entry THEN PolicyList[i]
                                                         ELSE PolicyList[i + 1]]
            ELSE /\ th' = [th EXCEPT ![r].entry = @ + 1,
                                     ![r].visited = @ + 1]
                 /\ UNCHANGED PolicyList
    /\ UNCHANGED <<PolicyLock, deviceAdded, deviceType, wpc, partial, cleanup,
                   freed>>
    /\ UNCHANGED wfpVars

\* One evaluation of the for loop: the test entry != &Context->PolicyList,
\* then the body and entry = entry->Flink, or the break.
CheckScan(r) ==
    /\ th[r].pc = "check_scan"
    /\ IF th[r].entry > Len(PolicyList)
       THEN th' = [th EXCEPT ![r].pc = "check_release"]
       ELSE LET step == ScanStep(PolicyList[th[r].entry], th[r].DeviceType,
                                 th[r].ProcessId, th[r].status) IN
            IF step.break
            THEN th' = [th EXCEPT ![r].status = step.status,
                                  ![r].visited = @ + 1,
                                  ![r].pc = "check_release"]
            ELSE th' = [th EXCEPT ![r].entry = @ + 1,
                                  ![r].visited = @ + 1]
    /\ UNCHANGED <<PolicyList, PolicyLock, deviceAdded, deviceType, wpc,
                   partial, cleanup, freed>>
    /\ UNCHANGED wfpVars

\* The for loop run to its end on a list, from a given status.
RECURSIVE ScanList(_, _, _, _)
ScanList(list, DeviceType, ProcessId, status) ==
    IF list = <<>> THEN status
    ELSE LET step == ScanStep(Head(list), DeviceType, ProcessId, status) IN
         IF step.break THEN step.status
         ELSE ScanList(Tail(list), DeviceType, ProcessId, step.status)

\* SecureHostCheckDeviceAccess as a function of the list it finds.
SecureHostCheckDeviceAccess(list, DeviceType, ProcessId) ==
    ScanList(list, DeviceType, ProcessId, CheckInitialStatus)

\* Faulty variant: the dispatcher ignores the status the check returned.
CheckAccessCaseStatusIgnored(returned) == STATUS_SUCCESS

\* The dispatcher's treatment of the returned status:
\*   if (!NT_SUCCESS(status)) status = STATUS_ACCESS_DENIED;
CheckAccessCaseStatus(returned) ==
    IF ~NT_SUCCESS(returned) THEN STATUS_ACCESS_DENIED ELSE returned

\* Faulty variant: the check returns without releasing the spin lock.
CheckReleaseKeepsLock(r) ==
    /\ th[r].pc = "check_release"
    /\ th' = [th EXCEPT ![r] =
          IF th[r].caller = "ioctl"
          THEN [@ EXCEPT !.pc = "io_complete", !.entry = 0, !.visited = 0,
                         !.reqStatus = CheckAccessCaseStatus(th[r].status)]
          ELSE [@ EXCEPT !.pc = "done", !.entry = 0, !.visited = 0]]
    /\ UNCHANGED <<PolicyList, PolicyLock, deviceAdded, deviceType, wpc,
                   partial, cleanup, freed>>
    /\ UNCHANGED wfpVars

\* KeReleaseSpinLock(&Context->PolicyLock, oldIrql); return status; and, in
\* the dispatcher, the rest of the check-access case.  The loop's locals end
\* with the call.
CheckRelease(r) ==
    /\ th[r].pc = "check_release"
    /\ PolicyLock' = 0
    /\ th' = [th EXCEPT ![r] =
          IF th[r].caller = "ioctl"
          THEN [@ EXCEPT !.pc = "io_complete", !.entry = 0, !.visited = 0,
                         !.reqStatus = CheckAccessCaseStatus(th[r].status)]
          ELSE [@ EXCEPT !.pc = "done", !.entry = 0, !.visited = 0]]
    /\ UNCHANGED <<PolicyList, deviceAdded, deviceType, wpc, partial,
                   cleanup, freed>>
    /\ UNCHANGED wfpVars

\* Faulty variant: the default case returns without completing the request.
IoCompleteCheckAccessOnly(r) ==
    /\ th[r].pc = "io_complete"
    /\ th' = [th EXCEPT ![r].pc = "done",
                        ![r].completions =
                            IF th[r].IoControlCode = IOCTL_SECUREHOST_CHECK_ACCESS
                            THEN @ + 1 ELSE @]
    /\ UNCHANGED <<PolicyList, PolicyLock, deviceAdded, deviceType, wpc,
                   partial, cleanup, freed>>
    /\ UNCHANGED wfpVars

\* WdfRequestComplete(Request, status), then the dispatcher returns.
IoComplete(r) ==
    /\ th[r].pc = "io_complete"
    /\ th' = [th EXCEPT ![r].pc = "done", ![r].completions = @ + 1]
    /\ UNCHANGED <<PolicyList, PolicyLock, deviceAdded, deviceType, wpc,
                   partial, cleanup, freed>>
    /\ UNCHANGED wfpVars

\* The host thread leaves the driver and may deliver another request.
ThreadLeaves(r) ==
    /\ th[r].pc = "done"
    /\ th' = [th EXCEPT ![r] = IdleThread]
    /\ UNCHANGED <<PolicyList, PolicyLock, deviceAdded, deviceType, wpc,
                   partial, cleanup, freed>>
    /\ UNCHANGED wfpVars

\* ------------------------------------------- policy writer (specification)

\* insert(rule), section 4.1: "appends rule to the tail of the ordered
\* collection under exclusive lock".
InsertAcquire ==
    /\ wpc = "idle"
    /\ cleanup = "no"
    /\ Len(PolicyList) < MaxRules
    /\ PolicyLock = 0
    /\ PolicyLock' = Writer
    /\ wpc' = "locked"
    /\ UNCHANGED <<PolicyList, deviceAdded, deviceType, th, partial, cleanup,
                   freed>>
    /\ UNCHANGED wfpVars

InsertLink ==
    /\ wpc = "locked"
    /\ \E rule \in DevicePolicies : PolicyList' = Append(PolicyList, rule)
    /\ partial' = TRUE
    /\ wpc' = "linked"
    /\ UNCHANGED <<PolicyLock, deviceAdded, deviceType, th, cleanup, freed>>
    /\ UNCHANGED wfpVars

InsertRelease ==
    /\ wpc = "linked"
    /\ partial' = FALSE
    /\ PolicyLock' = 0
    /\ wpc' = "idle"
    /\ UNCHANGED <<PolicyList, deviceAdded, deviceType, th, cleanup, freed>>
    /\ UNCHANGED wfpVars

\* ----------------------------------------------------------------- cleanup

\* The framework calls the driver object's EvtCleanupCallback when the driver
\* object is deleted, after its devices and queues: no request is inside the
\* driver and none is delivered afterwards.
CleanupStart ==
    /\ cleanup = "no"
    /\ wpc = "idle"
    /\ \A r \in Requests : th[r].pc = "idle"
    /\ cleanup' = "running"
    /\ UNCHANGED <<PolicyList, PolicyLock, deviceAdded, deviceType, th, wpc,
                   partial, freed>>
    /\ UNCHANGED wfpVars

\* One evaluation of while (!IsListEmpty(&context->PolicyList)):
\* RemoveHeadList and ExFreePoolWithTag, or the exit.  The lock is not taken.
CleanupStep ==
    /\ cleanup = "running"
    /\ IF PolicyList # <<>>
       THEN /\ freed' = Append(freed, Head(PolicyList))
            /\ PolicyList' = Tail(PolicyList)
            /\ UNCHANGED cleanup
       ELSE /\ cleanup' = "done"
            /\ UNCHANGED <<PolicyList, freed>>
    /\ UNCHANGED <<PolicyLock, deviceAdded, deviceType, th, wpc, partial>>
    /\ UNCHANGED wfpVars

SecureHostDriverCleanup == CleanupStart \/ CleanupStep

\* =============================================================== WFP driver

NoClassify ==
    [called |-> FALSE, processId |-> 0, localPort |-> 0, remotePort |-> 0,
     flags |-> 0, rightsIn |-> 0, storeBlocks |-> FALSE,
     actionType |-> FWP_ACTION_NONE, rights |-> 0]

\* The host side before the driver is loaded; the context does not exist yet
\* and is shown zeroed.
InitHost ==
    /\ caller = "none"
    /\ calls = 0
    /\ EngineHandle = 0
    /\ CalloutIdV4 = 0
    /\ CalloutIdV6 = 0
    /\ RulesList = <<>>
    /\ regStatus = STATUS_NONE
    /\ loadStatus = STATUS_NONE
    /\ hostSeq = 0
    /\ hostEngines = {}
    /\ hostTxn = FALSE
    /\ hostCallouts = {}
    /\ enginePending = {}
    /\ engineObjects = {}
    /\ hostLog = <<>>
    /\ rulesFreed = <<>>
    /\ lastClassify = NoClassify

InitWFP == InitHost /\ ctl = "unloaded" /\ NextRuleId = 0

\* The hook registry with a direct caller: the context as DriverEntry
\* initialises it (RtlZeroMemory, InitializeListHead, NextRuleId = 1).
InitRegistry == InitHost /\ ctl = "caller" /\ NextRuleId = 1

\* Section 4.5 lifecycle state of the load/unload thread's position.
Lifecycle ==
    CASE ctl \in {"unloaded", "load_failed", "unloaded_end"} -> "Unloaded"
      [] ctl \in {"reg_open", "reg_begin", "reg_v4", "reg_v6", "reg_sublayer",
                  "reg_add_v4", "reg_add_v6", "reg_commit", "reg_cleanup",
                  "reg_ret"} -> "Initializing"
      [] ctl = "active" -> "Active"
      [] ctl \in {"unreg_v4", "unreg_v6", "unreg_close", "unreg_ret",
                  "drain"} -> "Unloading"
      [] OTHER -> "Caller"

\* ---- host calls, each as the entry it leaves in hostLog

LogCall(by, call, arg) == [by |-> by, call |-> call, arg |-> arg, live |-> TRUE]

\* FwpsCalloutUnregisterById0(id): live tells whether id was registered when
\* the call was made.
LogUnregister(by, id) ==
    [by |-> by, call |-> "FwpsCalloutUnregisterById0", arg |-> id,
     live |-> id \in hostCallouts]

\* FwpmEngineClose0(handle): live tells whether the handle was open.
LogClose(by, handle) ==
    [by |-> by, call |-> "FwpmEngineClose0", arg |-> handle,
     live |-> handle \in hostEngines]

\* Unregister calls made one after the other: a repeated id is no longer
\* registered at its second call.
RECURSIVE LogUnregisterAll(_, _, _)
LogUnregisterAll(by, ids, registered) ==
    IF ids = <<>> THEN <<>>
    ELSE <<[by |-> by, call |-> "FwpsCalloutUnregisterById0",
            arg |-> Head(ids), live |-> Head(ids) \in registered]>>
         \o LogUnregisterAll(by, Tail(ids), registered \ {Head(ids)})

SeqRange(q) == {q[i] : i \in 1..Len(q)}

\* A step of SecureHostRegisterCallouts failed: the unregister calls of its
\* error branch, FwpmTransactionAbort0 when the branch makes it, then
\* goto cleanup.  The host ends an open transaction when a commit fails or
\* leaves it open; both outcomes are kept.
RegisterStepFails(status, unregister, abort) ==
    /\ regStatus' = status
    /\ hostCallouts' = hostCallouts \ SeqRange(unregister)
    /\ hostLog' = hostLog \o LogUnregisterAll("Register", unregister, hostCallouts) \o
                    (IF abort THEN <<LogCall("Register", "FwpmTransactionAbort0",
                                             EngineHandle)>>
                              ELSE <<>>)
    /\ IF abort
       THEN hostTxn' = FALSE /\ enginePending' = {}
       ELSE hostTxn' \in {hostTxn, FALSE} /\ UNCHANGED enginePending
    /\ ctl' = "reg_cleanup"
    /\ UNCHANGED <<caller, calls, ctxVars, loadStatus, hostSeq, hostEngines,
                   engineObjects, rulesFreed, lastClassify>>

\* ---- DriverEntry

\* Faulty variant: DriverEntry reports success whatever the registration returned.
DriverEntryStatusSuccess(status) == STATUS_SUCCESS

\* if (!NT_SUCCESS(status)) return status; ... return STATUS_SUCCESS;
DriverEntryStatus(status) ==
    IF ~NT_SUCCESS(status) THEN status ELSE STATUS_SUCCESS

\* DriverEntry up to the call of SecureHostRegisterCallouts: WdfDriverCreate
\* fails and the load ends, or the context is zeroed and initialised.
DriverEntry_Create ==
    /\ ctl = "unloaded"
    /\ \/ /\ loadStatus' = E_WDF_DRIVER_CREATE
          /\ ctl' = "load_failed"
          /\ UNCHANGED <<caller, ctxVars>>
       \/ /\ EngineHandle' = 0
          /\ CalloutIdV4' = 0
          /\ CalloutIdV6' = 0
          /\ RulesList' = <<>>
          /\ NextRuleId' = 1
          /\ caller' = "DriverEntry"
          /\ ctl' = "reg_open"
          /\ UNCHANGED loadStatus
    /\ UNCHANGED <<calls, regStatus, hostVars, rulesFreed, lastClassify>>
    /\ UNCHANGED devVars

\* DriverEntry after SecureHostRegisterCallouts returned.
DriverEntry_Return ==
    /\ ctl = "reg_ret"
    /\ caller = "DriverEntry"
    /\ loadStatus' = DriverEntryStatus(regStatus)
    /\ ctl' = IF NT_SUCCESS(loadStatus') THEN "active" ELSE "load_failed"
    /\ caller' = "none"
    /\ UNCHANGED <<calls, ctxVars, regStatus, hostVars, rulesFreed,
                   lastClassify>>
    /\ UNCHANGED devVars

\* ---- SecureHostRegisterCallouts

\* FwpmEngineOpen0(..., &Context->EngineHandle)
Reg_EngineOpen ==
    /\ ctl = "reg_open"
    /\ \/ /\ hostSeq' = hostSeq + 1
          /\ EngineHandle' = hostSeq'
          /\ hostEngines' = hostEngines \cup {hostSeq'}
          /\ hostLog' = Append(hostLog, LogCall("Register", "FwpmEngineOpen0", hostSeq'))
          /\ regStatus' = STATUS_SUCCESS
          /\ ctl' = "reg_begin"
       \/ /\ regStatus' = E_ENGINE_OPEN
          /\ ctl' = "reg_cleanup"
          /\ UNCHANGED <<EngineHandle, hostSeq, hostEngines, hostLog>>
    /\ UNCHANGED <<caller, calls, CalloutIdV4, CalloutIdV6, RulesList,
                   NextRuleId, loadStatus, hostTxn, hostCallouts,
                   enginePending, engineObjects, rulesFreed, lastClassify>>
    /\ UNCHANGED devVars

\* FwpmTransactionBegin0(Context->EngineHandle, 0)
Reg_TransactionBegin ==
    /\ ctl = "reg_begin"
    /\ \/ /\ hostTxn' = TRUE
          /\ hostLog' = Append(hostLog, LogCall("Register", "FwpmTransactionBegin0",
                                                EngineHandle))
          /\ ctl' = "reg_v4"
          /\ UNCHANGED <<regStatus, hostCallouts, enginePending>>
          /\ UNCHANGED <<caller, calls, ctxVars, loadStatus, hostSeq,
                         hostEngines, engineObjects, rulesFreed, lastClassify>>
       \/ RegisterStepFails(E_TRANSACTION_BEGIN, <<>>, FALSE)
    /\ UNCHANGED devVars

\* FwpsCalloutRegister3(..., &calloutV4, &Context->CalloutIdV4); on failure
\* FwpmTransactionAbort0.
Reg_CalloutRegisterV4 ==
    /\ ctl = "reg_v4"
    /\ \/ /\ hostSeq' = hostSeq + 1
          /\ CalloutIdV4' = hostSeq'
          /\ hostCallouts' = hostCallouts \cup {hostSeq'}
          /\ hostLog' = Append(hostLog, LogCall("Register", "FwpsCalloutRegister3",
                                                hostSeq'))
          /\ ctl' = "reg_v6"
          /\ UNCHANGED <<caller, calls, EngineHandle, CalloutIdV6, RulesList,
                         NextRuleId, regStatus, loadStatus, hostEngines,
                         hostTxn, enginePending, engineObjects, rulesFreed,
                         lastClassify>>
       \/ RegisterStepFails(E_CALLOUT_REGISTER_V4, <<>>, TRUE)
    /\ UNCHANGED devVars

\* Faulty variant: the IPv6 failure branch leaves the IPv4 callout registered.
RegisterV6FailureUnwindNothing == <<>>

\* The ids the IPv6 failure branch unregisters, in order.
RegisterV6FailureUnwind == <<CalloutIdV4>>

\* FwpsCalloutRegister3(..., &calloutV6, &Context->CalloutIdV6); on failure
\* FwpsCalloutUnregisterById0(CalloutIdV4), FwpmTransactionAbort0.
Reg_CalloutRegisterV6 ==
    /\ ctl = "reg_v6"
    /\ \/ /\ hostSeq' = hostSeq + 1
          /\ CalloutIdV6' = hostSeq'
          /\ hostCallouts' = hostCallouts \cup {hostSeq'}
          /\ hostLog' = Append(hostLog, LogCall("Register", "FwpsCalloutRegister3",
                                                hostSeq'))
          /\ ctl' = "reg_sublayer"
          /\ UNCHANGED <<caller, calls, EngineHandle, CalloutIdV4, RulesList,
                         NextRuleId, regStatus, loadStatus, hostEngines,
                         hostTxn, enginePending, engineObjects, rulesFreed,
                         lastClassify>>
       \/ RegisterStepFails(E_CALLOUT_REGISTER_V6, RegisterV6FailureUnwind,
                            TRUE)
    /\ UNCHANGED devVars

\* Faulty variant: the later failure branches unregister the IPv4 callout only.
RegisterLateFailureUnwindV4Only == <<CalloutIdV4>>

\* The ids the sublayer and management-callout failure branches, and the
\* commit failure branch, unregister, in order.
RegisterLateFailureUnwind == <<CalloutIdV4, CalloutIdV6>>

\* One of the three Fwpm*Add0 calls inside the transaction succeeded.
EngineObjectAdded(call, object, next) ==
    /\ enginePending' = enginePending \cup {object}
    /\ hostLog' = Append(hostLog, LogCall("Register", call, EngineHandle))
    /\ ctl' = next
    /\ UNCHANGED <<caller, calls, ctxVars, regStatus, loadStatus, hostSeq,
                   hostEngines, hostTxn, hostCallouts, engineObjects,
                   rulesFreed, lastClassify>>

\* FwpmSubLayerAdd0(Context->EngineHandle, &sublayer, NULL)
Reg_SubLayerAdd ==
    /\ ctl = "reg_sublayer"
    /\ \/ EngineObjectAdded("FwpmSubLayerAdd0", "sublayer", "reg_add_v4")
       \/ RegisterStepFails(E_SUBLAYER_ADD, RegisterLateFailureUnwind, TRUE)
    /\ UNCHANGED devVars

\* FwpmCalloutAdd0 for SECUREHOST_WFP_CALLOUT_V4_GUID
Reg_CalloutAddV4 ==
    /\ ctl = "reg_add_v4"
    /\ \/ EngineObjectAdded("FwpmCalloutAdd0", "calloutV4", "reg_add_v6")
       \/ RegisterStepFails(E_CALLOUT_ADD_V4, RegisterLateFailureUnwind, TRUE)
    /\ UNCHANGED devVars

\* FwpmCalloutAdd0 for SECUREHOST_WFP_CALLOUT_V6_GUID
Reg_CalloutAddV6 ==
    /\ ctl = "reg_add_v6"
    /\ \/ EngineObjectAdded("FwpmCalloutAdd0", "calloutV6", "reg_commit")
       \/ RegisterStepFails(E_CALLOUT_ADD_V6, RegisterLateFailureUnwind, TRUE)
    /\ UNCHANGED devVars

\* FwpmTransactionCommit0(Context->EngineHandle); return STATUS_SUCCESS, or
\* the two unregister calls and goto cleanup.
Reg_TransactionCommit ==
    /\ ctl = "reg_commit"
    /\ \/ /\ hostTxn' = FALSE
          /\ engineObjects' = engineObjects \cup enginePending
          /\ enginePending' = {}
          /\ hostLog' = Append(hostLog, LogCall("Register", "FwpmTransactionCommit0",
                                                EngineHandle))
          /\ regStatus' = STATUS_SUCCESS
          /\ ctl' = "reg_ret"
          /\ UNCHANGED <<caller, calls, ctxVars, loadStatus, hostSeq,
                         hostEngines, hostCallouts, rulesFreed, lastClassify>>
       \/ RegisterStepFails(E_TRANSACTION_COMMIT, RegisterLateFailureUnwind,
                            FALSE)
    /\ UNCHANGED devVars

\* if (handle != NULL) { FwpmEngineClose0(handle); handle = NULL; }
\* Closing the session ends a transaction still open on it.
CloseEngineHandle(by) ==
    IF EngineHandle # 0
    THEN /\ hostLog' = Append(hostLog, LogClose(by, EngineHandle))
         /\ hostEngines' = hostEngines \ {EngineHandle}
         /\ hostTxn' = FALSE
         /\ enginePending' = {}
         /\ EngineHandle' = 0
    ELSE UNCHANGED <<hostLog, hostEngines, hostTxn, enginePending,
                     EngineHandle>>

\* cleanup: ... return status;
Reg_Cleanup ==
    /\ ctl = "reg_cleanup"
    /\ CloseEngineHandle("Register")
    /\ ctl' = "reg_ret"
    /\ UNCHANGED <<caller, calls, CalloutIdV4, CalloutIdV6, RulesList,
                   NextRuleId, regStatus, loadStatus, hostSeq, hostCallouts,
                   engineObjects, rulesFreed, lastClassify>>
    /\ UNCHANGED devVars

SecureHostRegisterCallouts ==
    \/ Reg_EngineOpen
    \/ Reg_TransactionBegin
    \/ Reg_CalloutRegisterV4
    \/ Reg_CalloutRegisterV6
    \/ Reg_SubLayerAdd
    \/ Reg_CalloutAddV4
    \/ Reg_CalloutAddV6
    \/ Reg_TransactionCommit
    \/ Reg_Cleanup

\* ---- SecureHostUnregisterCallouts

\* if (id != 0) FwpsCalloutUnregisterById0(id);
UnregisterIfSet(id, next) ==
    /\ IF id # 0
       THEN /\ hostLog' = Append(hostLog, LogUnregister("Unregister", id))
            /\ hostCallouts' = hostCallouts \ {id}
       ELSE UNCHANGED <<hostLog, hostCallouts>>
    /\ ctl' = next
    /\ UNCHANGED <<caller, calls, ctxVars, regStatus, loadStatus, hostSeq,
                   hostEngines, hostTxn, enginePending, engineObjects,
                   rulesFreed, lastClassify>>

Unreg_CalloutV4 ==
    /\ ctl = "unreg_v4"
    /\ UnregisterIfSet(CalloutIdV4, "unreg_v6")
    /\ UNCHANGED devVars

Unreg_CalloutV6 ==
    /\ ctl = "unreg_v6"
    /\ UnregisterIfSet(CalloutIdV6, "unreg_close")
    /\ UNCHANGED devVars

\* if (Context->EngineHandle != NULL) { ... }  return STATUS_SUCCESS;
Unreg_EngineClose ==
    /\ ctl = "unreg_close"
    /\ CloseEngineHandle("Unregister")
    /\ ctl' = "unreg_ret"
    /\ UNCHANGED <<caller, calls, CalloutIdV4, CalloutIdV6, RulesList,
                   NextRuleId, regStatus, loadStatus, hostSeq, hostCallouts,
                   engineObjects, rulesFreed, lastClassify>>
    /\ UNCHANGED devVars

SecureHostUnregisterCallouts ==
    Unreg_CalloutV4 \/ Unreg_CalloutV6 \/ Unreg_EngineClose

\* ---- SecureHostEvtDriverUnload

\* The host's unload signal: SecureHostUnregisterCallouts(context) is called.
Unload_Begin ==
    /\ ctl = "active"
    /\ caller' = "Unload"
    /\ ctl' = "unreg_v4"
    /\ UNCHANGED <<calls, ctxVars, regStatus, loadStatus, hostVars,
                   rulesFreed, lastClassify>>
    /\ UNCHANGED devVars

\* Faulty variant: unload returns after the unregistration, the rule list is
\* left as it is.
Unload_UnregisteredSkipsDrain ==
    /\ ctl = "unreg_ret"
    /\ caller = "Unload"
    /\ caller' = "none"
    /\ ctl' = "unloaded_end"
    /\ UNCHANGED <<calls, ctxVars, regStatus, loadStatus, hostVars,
                   rulesFreed, lastClassify>>
    /\ UNCHANGED devVars

\* SecureHostUnregisterCallouts returned to SecureHostEvtDriverUnload, which
\* goes on to the loop over the rule list.
Unload_Unregistered ==
    /\ ctl = "unreg_ret"
    /\ caller = "Unload"
    /\ caller' = "none"
    /\ ctl' = "drain"
    /\ UNCHANGED <<calls, ctxVars, regStatus, loadStatus, hostVars,
                   rulesFreed, lastClassify>>
    /\ UNCHANGED devVars

\* One evaluation of while (!IsListEmpty(&context->RulesList)):
\* RemoveHeadList and ExFreePoolWithTag, or the exit and the return.
Unload_Drain ==
    /\ ctl = "drain"
    /\ IF RulesList # <<>>
       THEN /\ rulesFreed' = Append(rulesFreed, Head(RulesList))
            /\ RulesList' = Tail(RulesList)
            /\ UNCHANGED ctl
       ELSE /\ ctl' = "unloaded_end"
            /\ UNCHANGED <<RulesList, rulesFreed>>
    /\ UNCHANGED <<caller, calls, EngineHandle, CalloutIdV4, CalloutIdV6,
                   NextRuleId, regStatus, loadStatus, hostVars, lastClassify>>
    /\ UNCHANGED devVars

SecureHostEvtDriverUnload == Unload_Begin \/ Unload_Unregistered \/ Unload_Drain

\* ---- policy writer (specification)

\* insert(rule), section 4.1, with ruleId "assigned by the writer at
\* insertion time", monotonically increasing (section 3).
InsertRule ==
    /\ ctl = "active"
    /\ Len(RulesList) < MaxRules
    /\ \E rule \in NetworkRules :
          RulesList' = Append(RulesList,
                              [RuleId |-> NextRuleId] @@ rule)
    /\ NextRuleId' = NextRuleId + 1
    /\ UNCHANGED <<ctl, caller, calls, EngineHandle, CalloutIdV4, CalloutIdV6,
                   regStatus, loadStatus, hostVars, rulesFreed, lastClassify>>
    /\ UNCHANGED devVars

\* ---- SecureHostClassifyFn

\* Faulty variant: the rights bit is cleared whatever the filter's flags say.
ClassifyRightsAlwaysCleared(flags, rights) ==
    BitAndNot(rights, FWPS_RIGHT_ACTION_WRITE)

\* if (Filter->flags & FWPS_FILTER_FLAG_CLEAR_ACTION_RIGHT)
\*     ClassifyOut->rights &= ~FWPS_RIGHT_ACTION_WRITE;
ClassifyRights(flags, rights) ==
    IF BitAnd(flags, FWPS_FILTER_FLAG_CLEAR_ACTION_RIGHT) # 0
    THEN BitAndNot(rights, FWPS_RIGHT_ACTION_WRITE)
    ELSE rights

\* The host calls a callout only while its id is registered and its
\* management object is in the engine.
ClassifyDeliverable(calloutId) ==
    /\ calloutId \in hostCallouts
    /\ \/ calloutId = CalloutIdV4 /\ "calloutV4" \in engineObjects
       \/ calloutId = CalloutIdV6 /\ "calloutV6" \in engineObjects

\* A rule the specification's matcher would apply to the connection.
NetworkRuleMatches(rule, processId, localPort, remotePort) ==
    /\ rule.Enabled
    /\ rule.ProcessId \in {0, processId}
    /\ rule.LocalPort = localPort
    /\ rule.RemotePort = remotePort

\* The store holds an enabled Block rule for the connection.
StoreBlocks(rules, processId, localPort, remotePort) ==
    \E i \in 1..Len(rules) :
        /\ NetworkRuleMatches(rules[i], processId, localPort, remotePort)
        /\ rules[i].Action = FWP_ACTION_BLOCK

\* Faulty variant: the verdict is Block when an enabled Block rule matches.
SecureHostClassifyFnMatching(calloutId, pidPresent, pid, flags, rights) ==
    /\ ClassifyDeliverable(calloutId)
    /\ LET processId == IF pidPresent THEN pid ELSE 0 IN
       lastClassify' =
          [called |-> TRUE, processId |-> processId,
           localPort |-> 443, remotePort |-> 51000, flags |-> flags,
           rightsIn |-> rights,
           storeBlocks |-> StoreBlocks(RulesList, processId, 443, 51000),
           actionType |->
              IF StoreBlocks(RulesList, processId, 443, 51000)
              THEN FWP_ACTION_BLOCK ELSE FWP_ACTION_PERMIT,
           rights |-> ClassifyRights(flags, rights)]
    /\ UNCHANGED <<ctl, caller, calls, ctxVars, regStatus, loadStatus,
                   hostVars, rulesFreed>>
    /\ UNCHANGED devVars

\* SecureHostClassifyFn for one connect attempt: local port 443, remote port
\* 51000, outbound; the process id is 0 when the metadata field is absent.
SecureHostClassifyFn(calloutId, pidPresent, pid, flags, rights) ==
    /\ ClassifyDeliverable(calloutId)
    /\ LET processId == IF pidPresent THEN pid ELSE 0 IN
       lastClassify' =
          [called |-> TRUE, processId |-> processId,
           localPort |-> 443, remotePort |-> 51000, flags |-> flags,
           rightsIn |-> rights,
           storeBlocks |-> StoreBlocks(RulesList, processId, 443, 51000),
           actionType |-> FWP_ACTION_PERMIT,
           rights |-> ClassifyRights(flags, rights)]
    /\ UNCHANGED <<ctl, caller, calls, ctxVars, regStatus, loadStatus,
                   hostVars, rulesFreed>>
    /\ UNCHANGED devVars

\* ---- direct callers of the hook registry (SpecRegistry)

\* A caller activates the registry while the engine handle is closed.
Caller_Register ==
    /\ ctl = "caller"
    /\ calls < MaxCalls
    /\ EngineHandle = 0
    /\ calls' = calls + 1
    /\ caller' = "Caller"
    /\ ctl' = "reg_open"
    /\ UNCHANGED <<ctxVars, regStatus, loadStatus, hostVars, rulesFreed,
                   lastClassify>>
    /\ UNCHANGED devVars

\* A caller deactivates the registry, at any time between calls.
Caller_Unregister ==
    /\ ctl = "caller"
    /\ calls < MaxCalls
    /\ calls' = calls + 1
    /\ caller' = "Caller"
    /\ ctl' = "unreg_v4"
    /\ UNCHANGED <<ctxVars, regStatus, loadStatus, hostVars, rulesFreed,
                   lastClassify>>
    /\ UNCHANGED devVars

\* Either routine returns to the direct caller.
Caller_Returned ==
    /\ ctl \in {"reg_ret", "unreg_ret"}
    /\ caller = "Caller"
    /\ caller' = "none"
    /\ ctl' = "caller"
    /\ UNCHANGED <<calls, ctxVars, regStatus, loadStatus, hostVars,
                   rulesFreed, lastClassify>>
    /\ UNCHANGED devVars

\* ================================================================== systems

vars == <<devVars, wfpVars>>

Init == InitDevice /\ InitWFP

\* The device driver.
NextDevice ==
    \/ SecureHostDeviceAdd
    \/ \E r \in Requests, code \in IoControlCodes, pid \in RequesterProcessIds :
          SecureHostIoDeviceControl(r, code, pid)
    \/ \E r \in Requests, type \in DeviceTypes, pid \in RequesterProcessIds :
          CallCheckDeviceAccess(r, type, pid)
    \/ \E r \in Requests : CheckAcquire(r)
    \/ \E r \in Requests : CheckScan(r)
    \/ \E r \in Requests : CheckRelease(r)
    \/ \E r \in Requests : IoComplete(r)
    \/ \E r \in Requests : ThreadLeaves(r)
    \/ InsertAcquire
    \/ InsertLink
    \/ InsertRelease
    \/ SecureHostDriverCleanup

SpecDevice == Init /\ [][NextDevice]_vars

\* The device driver with its scheduling: a thread that holds the spin lock
\* runs at DISPATCH_LEVEL on its processor and takes its next step, and so
\* does the policy writer inside its insert; a thread spinning in
\* KeAcquireSpinLock obtains the lock if it is free again and again.
FairDevice ==
    /\ \A r \in Requests :
          /\ SF_vars(CheckAcquire(r))
          /\ WF_vars(CheckScan(r))
          /\ WF_vars(CheckRelease(r))
    /\ WF_vars(InsertLink)
    /\ WF_vars(InsertRelease)

SpecDeviceFair == Init /\ [][NextDevice]_vars /\ FairDevice

\* A classify call the host may make, for either callout.
Classify ==
    \E calloutId \in {CalloutIdV4, CalloutIdV6}, pidPresent \in BOOLEAN,
       flags \in FilterFlags, rights \in RightsMasks :
       SecureHostClassifyFn(calloutId, pidPresent, 100, flags, rights)

\* The WFP driver from load to unload.
NextWFP ==
    \/ DriverEntry_Create
    \/ SecureHostRegisterCallouts
    \/ DriverEntry_Return
    \/ SecureHostEvtDriverUnload
    \/ SecureHostUnregisterCallouts
    \/ InsertRule
    \/ Classify

SpecWFP == Init /\ [][NextWFP]_vars

\* The WFP driver's hook registry under a direct caller.
NextRegistry ==
    \/ Caller_Register
    \/ Caller_Unregister
    \/ Caller_Returned
    \/ SecureHostRegisterCallouts
    \/ SecureHostUnregisterCallouts

InitCaller == InitDevice /\ InitRegistry

SpecRegistry == InitCaller /\ [][NextRegistry]_vars

\* Both drivers on one host.
Next == NextDevice \/ NextWFP

Spec == Init /\ [][Next]_vars

\* ------------------------------------------------- claims: device driver

\* A thread whose call of SecureHostCheckDeviceAccess has returned.
CheckReturned(r) ==
    th[r].pc \in {"io_complete", "done"} /\ th[r].status # STATUS_NONE

\* A thread inside the dispatcher, or just out of it, with this kind of code.
InCheckAccessRequest(r) ==
    th[r].caller = "ioctl" /\ th[r].IoControlCode = IOCTL_SECUREHOST_CHECK_ACCESS

InOtherRequest(r) ==
    th[r].caller = "ioctl" /\ th[r].IoControlCode # IOCTL_SECUREHOST_CHECK_ACCESS

\* C1: whatever rules were inserted and whatever (device type, process id) is
\* asked, SecureHostCheckDeviceAccess returns STATUS_SUCCESS iff the list it
\* locked holds a rule with that device type, process id 0 or the asked one,
\* and Allowed; otherwise it returns STATUS_ACCESS_DENIED.
C1_CheckAccessIsMatchExists ==
    \A r \in Requests :
        CheckReturned(r) =>
            /\ th[r].status \in {STATUS_SUCCESS, STATUS_ACCESS_DENIED}
            /\ (th[r].status = STATUS_SUCCESS) <=> th[r].truth

\* A check has returned success because of a wildcard rule that follows a
\* rule which did not grant.
C1_Witness ==
    \E r \in Requests :
        /\ CheckReturned(r)
        /\ th[r].status = STATUS_SUCCESS
        /\ th[r].DeviceType = DeviceTypeCamera
        /\ Len(PolicyList) = 2
        /\ ~PolicyList[1].Allowed
        /\ PolicyList[2] = [DeviceType |-> DeviceTypeCamera, ProcessId |-> 0,
                            Allowed |-> TRUE]

\* C2: a scan of the empty list, after initialisation or after cleanup has
\* drained the list, visits nothing and ends with STATUS_ACCESS_DENIED.
C2_EmptyStoreDenies ==
    \A r \in Requests :
        (th[r].pc = "check_release" /\ PolicyList = <<>>) =>
            /\ th[r].status = STATUS_ACCESS_DENIED
            /\ th[r].visited = 0

\* A scan has finished on the list that cleanup emptied of an Allow rule for
\* the very query.
C2_Witness ==
    \E r \in Requests :
        /\ th[r].pc = "check_release"
        /\ PolicyList = <<>>
        /\ cleanup = "done"
        /\ MatchExists(freed, th[r].DeviceType, th[r].ProcessId)

C6_OtherCodesUnsupported ==
    \A r \in Requests :
        InOtherRequest(r) =>
            /\ th[r].pc \in {"io_complete", "done"}
            /\ PolicyLock # r
            /\ th[r].status = STATUS_NONE
            /\ th[r].visited = 0
            /\ th[r].reqStatus = STATUS_INVALID_DEVICE_REQUEST
            /\ th[r].pc = "done" => th[r].completions = 1

\* Such a request was completed while the list held an Allow rule for the
\* device and the requester.
C6_Witness ==
    \E r \in Requests :
        /\ InOtherRequest(r)
        /\ th[r].pc = "done"
        /\ MatchExists(PolicyList, deviceType, th[r].processId)

FailuresAfterOpen ==
    {E_TRANSACTION_BEGIN, E_CALLOUT_REGISTER_V4, E_CALLOUT_REGISTER_V6,
     E_SUBLAYER_ADD, E_CALLOUT_ADD_V4, E_CALLOUT_ADD_V6, E_TRANSACTION_COMMIT}

\* C3: when SecureHostRegisterCallouts returns the error of a step that
\* follows the opening of the engine, no callout is registered with the
\* host, no transaction is open, nothing of the transaction is in the engine
\* and the engine handle is closed and NULL.
C3_RegisterAllOrNothing ==
    (ctl = "reg_ret" /\ regStatus \in FailuresAfterOpen) =>
        /\ hostCallouts = {}
        /\ ~hostTxn
        /\ enginePending = {}
        /\ engineObjects = {}
        /\ hostEngines = {}
        /\ EngineHandle = 0

\* The commit failed after both callouts had been registered, and the routine
\* is returning.
C3_Witness ==
    /\ ctl = "reg_ret"
    /\ regStatus = E_TRANSACTION_COMMIT
    /\ CalloutIdV4 # 0
    /\ CalloutIdV6 # 0

\* An unregister call or a close made by SecureHostUnregisterCallouts.
ByUnregister(i) == hostLog[i].by = "Unregister"

\* C4: two calls of SecureHostUnregisterCallouts in a row after a successful
\* registration: the second makes no unregister call for a callout id the
\* first one unregistered, and no call closes a handle that is not open.
C4_UnregisterTwice ==
    \A i \in 1..Len(hostLog) :
        ByUnregister(i) =>
            /\ hostLog[i].call = "FwpmEngineClose0" => hostLog[i].live
            /\ (/\ hostLog[i].call = "FwpsCalloutUnregisterById0"
                /\ \E j \in 1..(i - 1) :
                      /\ ByUnregister(j)
                      /\ hostLog[j].call = "FwpsCalloutUnregisterById0"
                      /\ hostLog[j].arg = hostLog[i].arg
                      /\ hostLog[j].live)
               => hostLog[i].live

\* C7: every classify call ends with the verdict Permit, also when the rule
\* list holds an enabled Block rule for the connection's process and ports.
C7_ClassifyAlwaysPermits ==
    lastClassify.called => lastClassify.actionType = FWP_ACTION_PERMIT

\* A connection was classified while the list held an enabled Block rule for
\* its process id and ports.
C7_Witness ==
    /\ lastClassify.called
    /\ lastClassify.storeBlocks
    /\ lastClassify.processId = 100

\* C8: with the clear-action-right flag in the filter's flags the rights mask
\* comes out with the action-write bit cleared, without it the mask comes out
\* as it went in; the other bits are unchanged in both cases.
C8_RightsMask ==
    lastClassify.called =>
        /\ lastClassify.rights % 2 =
              (IF lastClassify.flags % 2 = 1 THEN 0
                                             ELSE lastClassify.rightsIn % 2)
        /\ lastClassify.rights \div 2 = lastClassify.rightsIn \div 2

\* The flag was set on a call whose mask had the write bit and another bit.
C8_Witness ==
    /\ lastClassify.called
    /\ lastClassify.flags = 1
    /\ lastClassify.rightsIn = 3
    /\ lastClassify.rights = 2

\* C10: when the registration fails during load, DriverEntry returns the
\* registration's status, the driver is not loaded (it is never Active with
\* a failed registration), no callout is registered and the engine handle is
\* closed.
C10_FailedLoad ==
    /\ (ctl = "load_failed" /\ regStatus # STATUS_NONE) =>
          /\ loadStatus = regStatus
          /\ ~NT_SUCCESS(loadStatus)
          /\ hostCallouts = {}
          /\ hostEngines = {}
          /\ EngineHandle = 0
    /\ Lifecycle = "Active" => (NT_SUCCESS(regStatus) /\ NT_SUCCESS(loadStatus))
    /\ (loadStatus # STATUS_NONE /\ ~NT_SUCCESS(loadStatus)) =>
          Lifecycle = "Unloaded"

\* The load ended with the status of the failed sublayer step.
C10_Witness ==
    /\ ctl = "load_failed"
    /\ loadStatus = E_SUBLAYER_ADD
    /\ CalloutIdV4 # 0


\* C11: during unload no rule is freed before SecureHostUnregisterCallouts has
\* returned; from then on no callout is registered and the engine handle is
\* closed and NULL; when unload has finished the rule list is empty and the
\* freed rules are exactly the rules that were inserted, each freed once, in
\* list order.
C11_UnloadDeactivatesThenDrains ==
    /\ rulesFreed # <<>> => ctl \in {"drain", "unloaded_end"}
    /\ ctl \in {"drain", "unloaded_end"} =>
          /\ hostCallouts = {}
          /\ hostEngines = {}
          /\ ~hostTxn
          /\ EngineHandle = 0
    /\ ctl = "unloaded_end" =>
          /\ RulesList = <<>>
          /\ Len(rulesFreed) = NextRuleId - 1
          /\ \A i \in 1..Len(rulesFreed) : rulesFreed[i].RuleId = i

\* Unload has finished after freeing two rules.
C11_Witness ==
    /\ ctl = "unloaded_end"
    /\ Len(rulesFreed) = 2
    /\ Len(hostLog) > 0
    /\ hostLog[Len(hostLog)].call = "FwpmEngineClose0"

\* The host calls of the routine that is returning, as (call, arg) pairs.
RegisterCalls == [i \in 1..Len(hostLog) |-> <<hostLog[i].call, hostLog[i].arg>>]

\* The statuses of the steps that follow the registration of both callouts.
FailuresAfterBothRegistered ==
    {E_SUBLAYER_ADD, E_CALLOUT_ADD_V4, E_CALLOUT_ADD_V6, E_TRANSACTION_COMMIT}

\* C12: when SecureHostRegisterCallouts returns the error of a step that
\* follows the registration of both callouts, its last four host calls are,
\* in this order: unregister the IPv6 callout, unregister the IPv4 callout,
\* abort the transaction, close the engine handle.
C12_UnwindInReverseOrder ==
    (ctl = "reg_ret" /\ regStatus \in FailuresAfterBothRegistered) =>
        /\ Len(hostLog) >= 4
        /\ LET n == Len(hostLog) IN
           /\ RegisterCalls[n - 3] = <<"FwpsCalloutUnregisterById0", CalloutIdV6>>
           /\ RegisterCalls[n - 2] = <<"FwpsCalloutUnregisterById0", CalloutIdV4>>
           /\ hostLog[n - 1].call = "FwpmTransactionAbort0"
           /\ hostLog[n].call = "FwpmEngineClose0"

\* The holders the policy lock can have besides teardown: nobody, a checking
\* thread, the policy writer.
OtherLockHolders == {0} \cup Requests \cup {Writer}

\* C13: while SecureHostDriverCleanup is unlinking and freeing rules it holds
\* the policy lock, and neither a scan nor an insert is inside its critical
\* section.
C13_DrainHoldsLock ==
    (cleanup = "running" /\ PolicyList # <<>>) =>
        /\ PolicyLock \notin OtherLockHolders
        /\ wpc = "idle"
        /\ \A r \in Requests : th[r].pc \notin {"check_scan", "check_release"}

\* The orderings of n rules.
Orderings(n) ==
    {f \in [1..n -> 1..n] : \A i, j \in 1..n : f[i] = f[j] => i = j}

Reordered(list, f) == [i \in 1..Len(list) |-> list[f[i]]]

\* C14: the status a scan ends with on the list it holds locked is the status
\* SecureHostCheckDeviceAccess gives on every reordering of that list: a
\* rule that applies and is not Allowed does not end the scan.
C14_VerdictIgnoresOrder ==
    \A r \in Requests :
        th[r].pc = "check_release" =>
            \A f \in Orderings(Len(PolicyList)) :
                SecureHostCheckDeviceAccess(Reordered(PolicyList, f),
                                            th[r].DeviceType, th[r].ProcessId)
                    = th[r].status

\* A scan has passed a rule that applies and denies, and ended with success
\* at the Allow rule behind it.
C14_Witness ==
    \E r \in Requests :
        /\ th[r].pc = "check_release"
        /\ th[r].status = STATUS_SUCCESS
        /\ th[r].visited = 2
        /\ PolicyApplies(PolicyList[1], th[r].DeviceType, th[r].ProcessId)
        /\ ~PolicyList[1].Allowed
        /\ PolicyApplies(PolicyList[2], th[r].DeviceType, th[r].ProcessId)
        /\ PolicyList[2].Allowed

\* C15: SecureHostUnregisterCallouts makes no unregister call for a callout
\* id that a failed SecureHostRegisterCallouts has already unregistered when
\* it rolled back.
C15_NoUnregisterAfterRollback ==
    \A i \in 1..Len(hostLog) :
        (/\ ByUnregister(i)
         /\ hostLog[i].call = "FwpsCalloutUnregisterById0"
         /\ \E j \in 1..(i - 1) :
               /\ hostLog[j].by = "Register"
               /\ hostLog[j].call = "FwpsCalloutUnregisterById0"
               /\ hostLog[j].arg = hostLog[i].arg)
        => hostLog[i].live

\* The positions of SecureHostRegisterCallouts before its transaction has
\* committed.
BeforeCommit ==
    {"reg_open", "reg_begin", "reg_v4", "reg_v6", "reg_sublayer",
     "reg_add_v4", "reg_add_v6", "reg_commit"}

\* C16: no callout is registered with the host while the driver is
\* Initializing and the transaction has not committed, nor while unload is
\* draining the rule list, nor while the driver is Unloaded.
C16_HooksOnlyWhileActive ==
    /\ ctl \in BeforeCommit => hostCallouts = {}
    /\ ctl = "drain" => hostCallouts = {}
    /\ Lifecycle = "Unloaded" => hostCallouts = {}

\* C17: a request delivered to SecureHostIoDeviceControl is not completed
\* while the dispatcher is still selecting or checking, and when the
\* dispatcher has returned it has been completed exactly once, with
\* STATUS_SUCCESS, STATUS_ACCESS_DENIED or STATUS_INVALID_DEVICE_REQUEST.
C17_CompletedExactlyOnce ==
    \A r \in Requests :
        th[r].caller = "ioctl" =>
            /\ th[r].pc \in {"check_acquire", "check_scan", "check_release",
                             "io_complete", "done"}
            /\ th[r].pc # "done" => th[r].completions = 0
            /\ th[r].pc = "done" =>
                  /\ th[r].completions = 1
                  /\ th[r].reqStatus \in {STATUS_SUCCESS, STATUS_ACCESS_DENIED,
                                          STATUS_INVALID_DEVICE_REQUEST}

\* The dispatcher has returned from a request it denied after scanning two
\* rules.
C17_Witness ==
    \E r \in Requests :
        /\ th[r].caller = "ioctl"
        /\ th[r].pc = "done"
        /\ th[r].completions = 1
        /\ th[r].reqStatus = STATUS_ACCESS_DENIED
        /\ Len(PolicyList) = 2

\* C18: the device's type is DeviceTypeUnknown, a check-access request asks
\* the check about DeviceTypeUnknown, the rule at which a request's scan ends
\* with success is an Allowed rule of type DeviceTypeUnknown for the
\* requester, and a request is completed with success only after such a scan.
C18_DeviceTypeAlwaysUnknown ==
    /\ deviceType = DeviceTypeUnknown
    /\ \A r \in Requests :
          InCheckAccessRequest(r) =>
              /\ th[r].DeviceType = DeviceTypeUnknown
              /\ (th[r].pc = "check_release" /\ th[r].status = STATUS_SUCCESS) =>
                    /\ th[r].entry \in 1..Len(PolicyList)
                    /\ PolicyList[th[r].entry].DeviceType = DeviceTypeUnknown
                    /\ PolicyList[th[r].entry].ProcessId \in {0, th[r].processId}
                    /\ PolicyList[th[r].entry].Allowed
              /\ (th[r].pc \in {"io_complete", "done"}
                  /\ th[r].reqStatus = STATUS_SUCCESS) =>
                    th[r].status = STATUS_SUCCESS

\* A request's scan has ended with access-denied on a list whose only rules
\* are any-process Allow rules for cameras.
C18_Witness ==
    \E r \in Requests :
        /\ InCheckAccessRequest(r)
        /\ th[r].pc = "check_release"
        /\ th[r].status = STATUS_ACCESS_DENIED
        /\ PolicyList # <<>>
        /\ \A i \in 1..Len(PolicyList) :
              PolicyList[i] = [DeviceType |-> DeviceTypeCamera, ProcessId |-> 0,
                               Allowed |-> TRUE]

\* The policy lock is held by exactly the threads between KeAcquireSpinLock
\* and KeReleaseSpinLock, and a scan has visited no more rules than the list
\* has, each rule before entry once.
LockHeldOnlyInScan ==
    \A r \in Requests :
        /\ (PolicyLock = r) <=> (th[r].pc \in {"check_scan", "check_release"})
        /\ th[r].visited <= Len(PolicyList)
        /\ th[r].pc = "check_scan" => th[r].visited = th[r].entry - 1

C20_RequestsLeaveStoreUnchanged ==
    [][(\E r \in Requests : th'[r] # th[r]) => PolicyList' = PolicyList]_vars

\* A check-access request was granted and has returned, with two rules in the
\* list.
C20_Witness ==
    \E r \in Requests :
        /\ InCheckAccessRequest(r)
        /\ th[r].pc = "done"
        /\ th[r].reqStatus = STATUS_SUCCESS
        /\ Len(PolicyList) = 2

\* C21: whenever neither SecureHostRegisterCallouts nor
\* SecureHostUnregisterCallouts is running (after the context was
\* initialised, after a registration that succeeded or failed, after an
\* unregistration), the engine handle is non-NULL and open iff both the IPv4
\* and the IPv6 callout are registered with the host, and the host has
\* either both of them registered or none.
C21_HandleOpenIffBothRegistered ==
    ctl = "caller" =>
        /\ (EngineHandle # 0) <=>
              (CalloutIdV4 \in hostCallouts /\ CalloutIdV6 \in hostCallouts)
        /\ (EngineHandle # 0) <=> (EngineHandle \in hostEngines)
        /\ hostEngines \subseteq {EngineHandle}
        /\ hostCallouts \in {{}, {CalloutIdV4, CalloutIdV6}}
        /\ hostCallouts # {} => Cardinality(hostCallouts) = 2

\* Between calls, the handle is open and both callouts are registered by a
\* registration that succeeded after an earlier one had failed and rolled
\* back.
C21_Witness ==
    /\ ctl = "caller"
    /\ EngineHandle # 0
    /\ hostCallouts = {CalloutIdV4, CalloutIdV6}
    /\ \E i \in 1..Len(hostLog) :
          /\ hostLog[i].by = "Register"
          /\ hostLog[i].call = "FwpsCalloutUnregisterById0"

=============================================================================
